---- MODULE Spec2Model ----
(***************************************************************************)
(* The Binance dashboard script (src/frontend.py) as a state machine.      *)
(* One run of main() is one render cycle: the widgets are read, the three  *)
(* upstream requests are issued one after another, the page elements are   *)
(* emitted in script order, and the run ends with the footer, with         *)
(* time.sleep(10); st.rerun(), or with an uncaught exception.              *)
(*                                                                         *)
(* Representation.  A Python value that may be None is a sequence of       *)
(* length <= 1 (<<>> is None).  A local that may be unbound is a sequence  *)
(* of length <= 1 as well (<<>> is "not assigned in this run").  A JSON    *)
(* numeric string is <<"str", n>>, a float is the integer n, a formatted   *)
(* string is the tuple of its format and its arguments.                    *)
(***************************************************************************)
EXTENDS Integers, Sequences, FiniteSets, TLC

\* ------------------------------------------------------------------ bounds

\* Upstream candle arrays of 0..MaxSmallRows rows are modelled.
MaxSmallRows == 1
\* Upstream candle arrays of up to MaxExcess rows more than the raw-data
\* table shows, and of up to MaxExcess rows more than the smallest limit.
MaxExcess == 1
\* Distinct price / 24h-ticker payloads the upstream may answer with.
MaxQuote == 2
\* The user drags the slider to one of its MaxSliderStops lowest stops, or
\* back to its default.
MaxSliderStops == 1

\* ------------------------------------------------------- program constants

symbols == <<"BTCUSDT", "ETHUSDT", "ADAUSDT", "DOTUSDT", "LINKUSDT">>
intervals == <<"1m", "5m", "15m", "1h", "4h", "1d">>
SliderMin == 100
SliderMax == 1000
SliderStep == 100
SliderDefault == 500
TailRows == 20

VARIABLES
    selected_symbol,     \* sidebar selectbox "Select Symbol"
    selected_interval,   \* sidebar selectbox "Select Interval"
    data_limit,          \* sidebar slider "Number of Data Points"
    auto_refresh,        \* sidebar checkbox "Auto-refresh (10 seconds)"
    pc,                  \* position of the script run
    inflight,            \* the request requests.get is blocked on (<<>>: none)
    calls,               \* requests issued by this run, in order
    replies,             \* what the upstream answered to them, in order
    current_price_data,  \* local of main: None or the price payload
    ticker_24hr,         \* local of main: None or the ticker payload
    price_locals,        \* locals of main bound at lines 178-183 (<<>>: unbound)
    df,                  \* local of main: the candle table
    rendered             \* page elements emitted by this run, in order

vars == <<selected_symbol, selected_interval, data_limit, auto_refresh, pc,
          inflight, calls, replies, current_price_data, ticker_24hr,
          price_locals, df, rendered>>

widgets == <<selected_symbol, selected_interval, data_limit, auto_refresh>>
locals == <<current_price_data, ticker_24hr, price_locals, df>>

\* ------------------------------------------------------------ the upstream

Str(n) == <<"str", n>>
\* float("<n>")
Float(s) == s[2]
\* pd.to_datetime(ms, unit="ms")
ToDatetime(ms) == <<"ms", ms>>
\* Timestamp.strftime('%Y-%m-%d')
StrfDate(t) == <<"%Y-%m-%d", t[2] \div 86400000>>

Failure == [ok |-> FALSE, body |-> <<>>]
Success(b) == [ok |-> TRUE, body |-> <<b>>]

\* The i-th row of an upstream /klines array: twelve fields, the times in
\* epoch milliseconds, the numbers as strings.
UpstreamRow(i) ==
    << i * 60000, Str(10 + i), Str(12 + i), Str(9 + i), Str(11 + i),
       Str((i * 7) % 5), i * 60000 + 59999, Str(i), i, Str(i), Str(i), Str(0) >>

UpstreamRows(n) == [i \in 1..n |-> UpstreamRow(i)]

RowCounts ==
    (0..MaxSmallRows)
    \cup ((TailRows - 1)..(TailRows + MaxExcess))
    \cup ((SliderMin + 1)..(SliderMin + MaxExcess))

KlinesReplies == {Failure} \cup {Success(UpstreamRows(n)) : n \in RowCounts}

PricePayload(sym, q) == [symbol |-> sym, price |-> Str(100 * q)]
PriceReplies(sym) == {Failure} \cup {Success(PricePayload(sym, q)) : q \in 1..MaxQuote}

TickerPayload(sym, q) ==
    [symbol |-> sym, priceChange |-> Str(q - 2), priceChangePercent |-> Str(q - 3),
     volume |-> Str(1000 * q), highPrice |-> Str(100 * q + 5),
     lowPrice |-> Str(100 * q - 5)]
TickerReplies(sym) == {Failure} \cup {Success(TickerPayload(sym, q)) : q \in 1..MaxQuote}

\* -------------------------------------------------------------- BinanceAPI

\* What a fetch method hands back: its return value, the st.error elements it
\* emitted, and whether an exception left the method.
StError(msg) == [kind |-> "error", text |-> msg]

Columns(r) ==
    [open_time |-> ToDatetime(r[1]), open |-> Float(r[2]), high |-> Float(r[3]),
     low |-> Float(r[4]), close |-> Float(r[5]), volume |-> Float(r[6]),
     close_time |-> ToDatetime(r[7]), quote_asset_volume |-> r[8], trades |-> r[9],
     taker_buy_base |-> r[10], taker_buy_quote |-> r[11], ignore |-> r[12]]

\* Mutant of get_historical_klines: the last upstream row is lost.
get_historical_klines_dropping_last(reply) ==
    IF reply.ok
    THEN [ret |-> [i \in 1..(Len(reply.body[1]) - 1) |-> Columns(reply.body[1][i])],
          errors |-> <<>>, raised |-> FALSE]
    ELSE [ret |-> <<>>, errors |-> <<StError("Error fetching data")>>,
          raised |-> FALSE]

\* Lines 48-80: every exception of the request, of the status check, of the
\* JSON decoding and of the conversion is caught at line 78.
get_historical_klines(reply) ==
    IF reply.ok
    THEN [ret |-> [i \in 1..Len(reply.body[1]) |-> Columns(reply.body[1][i])],
          errors |-> <<>>, raised |-> FALSE]
    ELSE [ret |-> <<>>, errors |-> <<StError("Error fetching data")>>,
          raised |-> FALSE]

\* Lines 82-93.
get_current_price(reply) ==
    IF reply.ok
    THEN [ret |-> reply.body, errors |-> <<>>, raised |-> FALSE]
    ELSE [ret |-> <<>>, errors |-> <<StError("Error fetching current price")>>,
          raised |-> FALSE]

\* Mutant of get_24hr_ticker: no handler, the failure leaves the method.
get_24hr_ticker_uncaught(reply) ==
    IF reply.ok
    THEN [ret |-> reply.body, errors |-> <<>>, raised |-> FALSE]
    ELSE [ret |-> <<>>, errors |-> <<>>, raised |-> TRUE]

\* Lines 95-106.
get_24hr_ticker(reply) ==
    IF reply.ok
    THEN [ret |-> reply.body, errors |-> <<>>, raised |-> FALSE]
    ELSE [ret |-> <<>>, errors |-> <<StError("Error fetching 24hr stats")>>,
          raised |-> FALSE]

KlinesRequest(sym, intv, lim) ==
    [url |-> "/klines", symbol |-> sym, interval |-> intv, limit |-> lim]
PriceRequest(sym) ==
    [url |-> "/ticker/price", symbol |-> sym, interval |-> "", limit |-> 0]
TickerRequest(sym) ==
    [url |-> "/ticker/24hr", symbol |-> sym, interval |-> "", limit |-> 0]

\* ------------------------------------------------------------ page elements

Markdown(t) == [kind |-> "markdown", text |-> t]
Subheader(t) == [kind |-> "subheader", text |-> t]
Metric(l, v, d) == [kind |-> "metric", label |-> l, value |-> v, delta |-> d]
PlotlyChart(f) == [kind |-> "plotly_chart", fig |-> f]
Dataframe(r) == [kind |-> "dataframe", rows |-> r]
Tabs(n) == [kind |-> "tabs", names |-> n]
Traceback(e) == [kind |-> "exception", text |-> e]

\* f"${x:,.2f}", f"${x:,.0f}", f"{x:.2f}%", f"${x:.2f}"
FmtMoney2(x) == <<"$,.2f", x>>
FmtMoney0(x) == <<"$,.0f", x>>
FmtPercent(x) == <<".2f%", x>>
FmtPlain2(x) == <<"$.2f", x>>
NA == <<"N/A">>
NoDelta == <<>>

Header == Markdown("Binance Crypto Dashboard")
FooterRule == Markdown("---")
FooterNote == Markdown("Note: data may be delayed")
NoDataNotice ==
    StError("No data available. Please check your connection or try a different symbol.")

\* ------------------------------------------------------------ ChartBuilder

Column(d, c) == [i \in 1..Len(d) |-> d[i][c]]

\* Mutant of create_candlestick_chart: the candles are resampled, every
\* second one is left out.
create_candlestick_chart_resampled(d, title) ==
    LET half == (Len(d) + 1) \div 2
        pick(c) == [i \in 1..half |-> d[2 * i - 1][c]]
    IN  [type |-> "candlestick", title |-> title, height |-> 500,
         x |-> pick("open_time"), open |-> pick("open"), high |-> pick("high"),
         low |-> pick("low"), close |-> pick("close")]

\* Lines 108-130.
create_candlestick_chart(d, title) ==
    [type |-> "candlestick", title |-> title, height |-> 500,
     x |-> Column(d, "open_time"), open |-> Column(d, "open"),
     high |-> Column(d, "high"), low |-> Column(d, "low"),
     close |-> Column(d, "close")]

\* Lines 132-144.
create_volume_chart(d) ==
    [type |-> "bar", title |-> "Trading Volume", height |-> 300,
     x |-> Column(d, "open_time"), y |-> Column(d, "volume")]

\* px.line(df, x='open_time', y='close', ...)
PriceTrendLine(d, sym) ==
    [type |-> "line", title |-> <<sym, "Price Trend">>, height |-> 400,
     x |-> Column(d, "open_time"), y |-> Column(d, "close")]

\* --------------------------------------------------------- pandas helpers

RECURSIVE SumSeq(_)
SumSeq(s) == IF s = <<>> THEN 0 ELSE s[1] + SumSeq(Tail(s))

RECURSIVE SumSq(_)
SumSq(s) == IF s = <<>> THEN 0 ELSE s[1] * s[1] + SumSq(Tail(s))

Range(s) == {s[i] : i \in 1..Len(s)}
SeriesMax(s) == CHOOSE m \in Range(s) : \A v \in Range(s) : v <= m
SeriesMin(s) == CHOOSE m \in Range(s) : \A v \in Range(s) : m <= v
\* Series.mean() as the exact quotient sum / count
SeriesMean(s) == <<"/", SumSeq(s), Len(s)>>
\* Series.std() by its sufficient statistics (count, sum, sum of squares)
SeriesStd(s) == <<"std", Len(s), SumSeq(s), SumSq(s)>>
\* the open_time column holds <<"ms", t>>
TimeMax(s) == ToDatetime(SeriesMax([i \in 1..Len(s) |-> s[i][2]]))
TimeMin(s) == ToDatetime(SeriesMin([i \in 1..Len(s) |-> s[i][2]]))

\* Mutant of DfTail: the first rows instead of the last.
DfHead(d, n) == IF Len(d) <= n THEN d ELSE SubSeq(d, 1, n)

\* df.tail(n)
DfTail(d, n) == IF Len(d) <= n THEN d ELSE SubSeq(d, Len(d) - n + 1, Len(d))
\* Mutant of DfEmpty: the table is never taken to be empty.
DfEmptyNever(d) == Len(d) < 0

\* df.empty
DfEmpty(d) == Len(d) = 0

\* -------------------------------------------------------------------- main

IntText(n) == <<"int", n>>
Emit(elems) == rendered' = rendered \o elems

\* Lines 178-183: the six floats main binds when both payloads are truthy.
BindPriceLocals(p, t) ==
    [current_price |-> Float(p.price), price_change |-> Float(t.priceChange),
     price_change_percent |-> Float(t.priceChangePercent),
     volume |-> Float(t.volume), high_24h |-> Float(t.highPrice),
     low_24h |-> Float(t.lowPrice)]

\* Lines 185-208: the summary strip.
SummaryMetrics(sym, l) ==
    << Metric(<<"Current Price", sym>>, FmtMoney2(l.current_price),
              FmtPercent(l.price_change_percent)),
       Metric(<<"24h Volume">>, FmtMoney0(l.volume), NoDelta),
       Metric(<<"24h High">>, FmtMoney2(l.high_24h), NoDelta),
       Metric(<<"24h Low">>, FmtMoney2(l.low_24h), NoDelta) >>

\* Lines 242-252: the Value column is built entry by entry; an entry whose
\* payload is truthy reads a local of lines 178-183, which is unbound unless
\* both payloads were truthy (UnboundLocalError).
StatsRaises(cpd, t24, l) == (cpd # <<>> \/ t24 # <<>>) /\ l = <<>>

StatsValues(cpd, t24, l) ==
    << IF cpd # <<>> THEN FmtMoney2(l[1].current_price) ELSE NA,
       IF t24 # <<>> THEN FmtMoney2(l[1].price_change) ELSE NA,
       IF t24 # <<>> THEN FmtPercent(l[1].price_change_percent) ELSE NA,
       IF t24 # <<>> THEN FmtMoney2(l[1].high_24h) ELSE NA,
       IF t24 # <<>> THEN FmtMoney2(l[1].low_24h) ELSE NA,
       IF t24 # <<>> THEN FmtMoney0(l[1].volume) ELSE NA >>

StatsMetricNames ==
    <<"Current Price", "24h Change", "24h Change %", "24h High", "24h Low",
      "24h Volume">>

StatsTable(cpd, t24, l) ==
    [kind |-> "stats_table", metric |-> StatsMetricNames,
     value |-> StatsValues(cpd, t24, l)]

Init ==
    /\ selected_symbol = symbols[1]
    /\ selected_interval = intervals[4]
    /\ data_limit = SliderDefault
    /\ auto_refresh = FALSE
    /\ pc = "start"
    /\ inflight = <<>>
    /\ calls = <<>>
    /\ replies = <<>>
    /\ current_price_data = <<>>
    /\ ticker_24hr = <<>>
    /\ price_locals = <<>>
    /\ df = <<>>
    /\ rendered = <<>>

\* Mutant of StartRun: the six floats of lines 178-183 outlive the run.
StartRunKeepingPriceLocals ==
    /\ pc' = "get_current_price"
    /\ current_price_data' = <<>>
    /\ ticker_24hr' = <<>>
    /\ price_locals' = price_locals
    /\ df' = <<>>
    /\ calls' = <<>>
    /\ replies' = <<>>
    /\ rendered' = <<Header>>
    /\ inflight' = <<>>

\* Lines 146-171: a run of the script starts with a fresh frame (every local
\* of main unbound) and a fresh page, and emits the header; the widgets keep
\* the values of the session.
StartRun ==
    /\ pc' = "get_current_price"
    /\ current_price_data' = <<>>
    /\ ticker_24hr' = <<>>
    /\ price_locals' = <<>>
    /\ df' = <<>>
    /\ calls' = <<>>
    /\ replies' = <<>>
    /\ rendered' = <<Header>>
    /\ inflight' = <<>>

\* The first run of a session.
MainBegin ==
    /\ pc = "start"
    /\ StartRun
    /\ UNCHANGED widgets

\* Line 174, requests.get going out (line 88).
CallCurrentPrice ==
    /\ pc = "get_current_price"
    /\ inflight = <<>>
    /\ inflight' = <<PriceRequest(selected_symbol)>>
    /\ calls' = Append(calls, PriceRequest(selected_symbol))
    /\ pc' = "await_current_price"
    /\ UNCHANGED <<widgets, locals, replies, rendered>>

\* Lines 88-93 and the assignment of line 174.
ReturnCurrentPrice ==
    /\ pc = "await_current_price"
    /\ \E reply \in PriceReplies(selected_symbol) :
         LET r == get_current_price(reply) IN
           /\ replies' = Append(replies, reply)
           /\ inflight' = <<>>
           /\ IF r.raised
              THEN /\ pc' = "crashed"
                   /\ Emit(r.errors \o <<Traceback("RequestException")>>)
                   /\ UNCHANGED current_price_data
              ELSE /\ pc' = "get_24hr_ticker"
                   /\ Emit(r.errors)
                   /\ current_price_data' = r.ret
    /\ UNCHANGED <<widgets, calls, ticker_24hr, price_locals, df>>

\* Line 175, requests.get going out (line 101).
Call24hrTicker ==
    /\ pc = "get_24hr_ticker"
    /\ inflight = <<>>
    /\ inflight' = <<TickerRequest(selected_symbol)>>
    /\ calls' = Append(calls, TickerRequest(selected_symbol))
    /\ pc' = "await_24hr_ticker"
    /\ UNCHANGED <<widgets, locals, replies, rendered>>

\* Lines 101-106 and the assignment of line 175.
Return24hrTicker ==
    /\ pc = "await_24hr_ticker"
    /\ \E reply \in TickerReplies(selected_symbol) :
         LET r == get_24hr_ticker(reply) IN
           /\ replies' = Append(replies, reply)
           /\ inflight' = <<>>
           /\ IF r.raised
              THEN /\ pc' = "crashed"
                   /\ Emit(r.errors \o <<Traceback("RequestException")>>)
                   /\ UNCHANGED ticker_24hr
              ELSE /\ pc' = "metrics"
                   /\ Emit(r.errors)
                   /\ ticker_24hr' = r.ret
    /\ UNCHANGED <<widgets, calls, current_price_data, price_locals, df>>

\* Mutant of RenderMetrics: without both payloads the run gives up and goes
\* straight to the auto-refresh step.
RenderMetricsOrGiveUp ==
    /\ pc = "metrics"
    /\ IF current_price_data # <<>> /\ ticker_24hr # <<>>
       THEN LET l == BindPriceLocals(current_price_data[1], ticker_24hr[1]) IN
              /\ pc' = "get_historical_klines"
              /\ price_locals' = <<l>>
              /\ Emit(SummaryMetrics(selected_symbol, l))
       ELSE /\ pc' = "refresh"
            /\ UNCHANGED <<price_locals, rendered>>
    /\ UNCHANGED <<widgets, inflight, calls, replies, current_price_data,
                   ticker_24hr, df>>

\* Lines 177-208.
RenderMetrics ==
    /\ pc = "metrics"
    /\ pc' = "get_historical_klines"
    /\ IF current_price_data # <<>> /\ ticker_24hr # <<>>
       THEN LET l == BindPriceLocals(current_price_data[1], ticker_24hr[1]) IN
              /\ price_locals' = <<l>>
              /\ Emit(SummaryMetrics(selected_symbol, l))
       ELSE UNCHANGED <<price_locals, rendered>>
    /\ UNCHANGED <<widgets, inflight, calls, replies, current_price_data,
                   ticker_24hr, df>>

\* Lines 211-218, requests.get going out (line 58).
CallHistoricalKlines ==
    /\ pc = "get_historical_klines"
    /\ inflight = <<>>
    /\ Emit(<<Subheader(<<"Price Chart", selected_symbol>>)>>)
    /\ inflight' = <<KlinesRequest(selected_symbol, selected_interval, data_limit)>>
    /\ calls' = Append(calls, KlinesRequest(selected_symbol, selected_interval,
                                            data_limit))
    /\ pc' = "await_historical_klines"
    /\ UNCHANGED <<widgets, locals, replies>>

\* Lines 58-80 and the assignment of line 214.
ReturnHistoricalKlines ==
    /\ pc = "await_historical_klines"
    /\ \E reply \in KlinesReplies :
         LET r == get_historical_klines(reply) IN
           /\ replies' = Append(replies, reply)
           /\ inflight' = <<>>
           /\ IF r.raised
              THEN /\ pc' = "crashed"
                   /\ Emit(r.errors \o <<Traceback("RequestException")>>)
                   /\ UNCHANGED df
              ELSE /\ pc' = "tabs"
                   /\ Emit(r.errors)
                   /\ df' = r.ret
    /\ UNCHANGED <<widgets, calls, current_price_data, ticker_24hr, price_locals>>

\* Lines 220-226: the branch of a non-empty table opens the four tabs and
\* fills the first.
CandlestickTab(d, sym, intv) ==
    << Tabs(<<"Candlestick Chart", "Price Analysis", "Volume Analysis", "Raw Data">>),
       PlotlyChart(create_candlestick_chart(d, <<sym, "Price Chart", intv>>)) >>

\* Lines 229-241: what tab2 emits before the Value column is built.
PriceAnalysisHead(d, sym) ==
    << PlotlyChart(PriceTrendLine(d, sym)), Subheader(<<"Price Statistics">>) >>

\* Lines 256-265.
VolumeTab(d) ==
    << PlotlyChart(create_volume_chart(d)),
       Metric(<<"Average Volume">>, FmtPlain2(SeriesMean(Column(d, "volume"))), NoDelta),
       Metric(<<"Max Volume">>, FmtPlain2(SeriesMax(Column(d, "volume"))), NoDelta) >>

\* Lines 267-285.
RawDataTab(d) ==
    << Subheader(<<"Raw Market Data">>),
       Dataframe(DfTail(d, TailRows)),
       Subheader(<<"Data Summary">>),
       Metric(<<"Total Records">>, IntText(Len(d)), NoDelta),
       Metric(<<"Date Range">>,
              <<StrfDate(TimeMin(Column(d, "open_time"))), "to",
                StrfDate(TimeMax(Column(d, "open_time")))>>, NoDelta),
       Metric(<<"Average Price">>, FmtPlain2(SeriesMean(Column(d, "close"))), NoDelta),
       Metric(<<"Price Std Dev">>, FmtPlain2(SeriesStd(Column(d, "close"))), NoDelta),
       Metric(<<"Min Price">>, FmtPlain2(SeriesMin(Column(d, "low"))), NoDelta),
       Metric(<<"Max Price">>, FmtPlain2(SeriesMax(Column(d, "high"))), NoDelta) >>

RenderCandlestickTab ==
    /\ pc = "tabs"
    /\ ~DfEmpty(df)
    /\ Emit(CandlestickTab(df, selected_symbol, selected_interval))
    /\ pc' = "tab2"
    /\ UNCHANGED <<widgets, locals, inflight, calls, replies>>

\* Lines 228-254.  An unbound local read at lines 245-250 ends the run: the
\* host shows the traceback and nothing after it is executed.
RenderPriceAnalysisTab ==
    /\ pc = "tab2"
    /\ IF StatsRaises(current_price_data, ticker_24hr, price_locals)
       THEN /\ Emit(PriceAnalysisHead(df, selected_symbol)
                    \o <<Traceback("UnboundLocalError")>>)
            /\ pc' = "crashed"
       ELSE /\ Emit(PriceAnalysisHead(df, selected_symbol)
                    \o <<StatsTable(current_price_data, ticker_24hr, price_locals)>>)
            /\ pc' = "tab3"
    /\ UNCHANGED <<widgets, locals, inflight, calls, replies>>

RenderVolumeTab ==
    /\ pc = "tab3"
    /\ Emit(VolumeTab(df))
    /\ pc' = "tab4"
    /\ UNCHANGED <<widgets, locals, inflight, calls, replies>>

RenderRawDataTab ==
    /\ pc = "tab4"
    /\ Emit(RawDataTab(df))
    /\ pc' = "refresh"
    /\ UNCHANGED <<widgets, locals, inflight, calls, replies>>

\* Lines 287-288.
RenderNoData ==
    /\ pc = "tabs"
    /\ DfEmpty(df)
    /\ Emit(<<NoDataNotice>>)
    /\ pc' = "refresh"
    /\ UNCHANGED <<widgets, locals, inflight, calls, replies>>

\* Mutant of Sleep: the footer is emitted before the pause.
SleepAfterFooter ==
    /\ pc = "refresh"
    /\ auto_refresh
    /\ Emit(<<FooterRule, FooterNote>>)
    /\ pc' = "sleep"
    /\ UNCHANGED <<widgets, locals, inflight, calls, replies>>

\* Lines 291-292: with the checkbox set the run blocks in time.sleep(10).
Sleep ==
    /\ pc = "refresh"
    /\ auto_refresh
    /\ pc' = "sleep"
    /\ UNCHANGED <<widgets, locals, inflight, calls, replies, rendered>>

\* Line 293: st.rerun() ends this run and starts the script again.
Rerun ==
    /\ pc = "sleep"
    /\ StartRun
    /\ UNCHANGED widgets

\* Lines 295-300: reached only when line 291 is false.
Footer ==
    /\ pc = "refresh"
    /\ ~auto_refresh
    /\ Emit(<<FooterRule, FooterNote>>)
    /\ pc' = "done"
    /\ UNCHANGED <<widgets, locals, inflight, calls, replies>>

\* The session between runs: the script has ended (with the footer or with a
\* traceback) and the host waits for a widget to change, which runs the
\* script again from its first line.  While a run is executing or sleeping no input is served.
Idle == pc \in {"done", "crashed"}

SliderValues == {v \in SliderMin..SliderMax : (v - SliderMin) % SliderStep = 0}

SelectSymbol ==
    /\ Idle
    /\ \E i \in 1..Len(symbols) :
         /\ symbols[i] # selected_symbol
         /\ selected_symbol' = symbols[i]
    /\ StartRun
    /\ UNCHANGED <<selected_interval, data_limit, auto_refresh>>

SelectInterval ==
    /\ Idle
    /\ \E i \in 1..Len(intervals) :
         /\ intervals[i] # selected_interval
         /\ selected_interval' = intervals[i]
    /\ StartRun
    /\ UNCHANGED <<selected_symbol, data_limit, auto_refresh>>

SlideDataLimit ==
    /\ Idle
    /\ \E v \in SliderValues :
         /\ v = SliderDefault \/ v < SliderMin + MaxSliderStops * SliderStep
         /\ v # data_limit
         /\ data_limit' = v
    /\ StartRun
    /\ UNCHANGED <<selected_symbol, selected_interval, auto_refresh>>

ToggleAutoRefresh ==
    /\ Idle
    /\ auto_refresh' = ~auto_refresh
    /\ StartRun
    /\ UNCHANGED <<selected_symbol, selected_interval, data_limit>>

Next ==
    \/ MainBegin
    \/ CallCurrentPrice
    \/ ReturnCurrentPrice
    \/ Call24hrTicker
    \/ Return24hrTicker
    \/ RenderMetrics
    \/ CallHistoricalKlines
    \/ ReturnHistoricalKlines
    \/ RenderCandlestickTab
    \/ RenderPriceAnalysisTab
    \/ RenderVolumeTab
    \/ RenderRawDataTab
    \/ RenderNoData
    \/ Sleep
    \/ Rerun
    \/ Footer
    \/ SelectSymbol
    \/ SelectInterval
    \/ SlideDataLimit
    \/ ToggleAutoRefresh

Spec == Init /\ [][Next]_vars

\* ----------------------------------------------------- reading a run's state

\* The run has left the script: at the footer, in time.sleep, or by a traceback.
RunEnded == pc \in {"done", "sleep", "crashed"}

Count(e) == Cardinality({i \in 1..Len(rendered) : rendered[i] = e})
HasKind(k) == \E i \in 1..Len(rendered) : rendered[i].kind = k
HasChart(t) ==
    \E i \in 1..Len(rendered) :
        rendered[i].kind = "plotly_chart" /\ rendered[i].fig.type = t
TheChart(t) ==
    rendered[CHOOSE i \in 1..Len(rendered) :
                 rendered[i].kind = "plotly_chart" /\ rendered[i].fig.type = t].fig
TheElement(k) == rendered[CHOOSE i \in 1..Len(rendered) : rendered[i].kind = k]
HasMetric(l) ==
    \E i \in 1..Len(rendered) : rendered[i].kind = "metric" /\ rendered[i].label = l
TheMetric(l) ==
    rendered[CHOOSE i \in 1..Len(rendered) :
                 rendered[i].kind = "metric" /\ rendered[i].label = l]

PriceFailed == Len(replies) >= 1 /\ ~replies[1].ok
TickerFailed == Len(replies) >= 2 /\ ~replies[2].ok
KlinesAnswered == Len(replies) = 3
\* Rows of the upstream candle array of this run (0 when the fetch failed).
UpstreamCount == IF replies[3].ok THEN Len(replies[3].body[1]) ELSE 0

\* --------------------------------------------------------------------- C1
\* C1: in every run where the price fetch or the ticker fetch failed and the
\* candle table is non-empty, the run renders the candlestick chart and the
\* volume chart, and the price-statistics table shows "N/A" for every entry
\* whose source fetch failed.
C1_DegradedRunStillRendersCharts ==
    (RunEnded /\ KlinesAnswered /\ (PriceFailed \/ TickerFailed) /\ UpstreamCount > 0)
    => /\ HasChart("candlestick")
       /\ HasChart("bar")
       /\ HasKind("stats_table")
       /\ PriceFailed => TheElement("stats_table").value[1] = NA
       /\ TickerFailed => \A j \in 2..6 : TheElement("stats_table").value[j] = NA

\* --------------------------------------------------------------------- C2
\* C2: with auto-refresh enabled every run, whatever its three fetches
\* answered, goes on to the pause and the restart; it never ends the session's
\* script (neither at the footer nor by a traceback).
C2_AutoRefreshRunAlwaysRestarts ==
    auto_refresh => pc \notin {"done", "crashed"}

\* --------------------------------------------------------------------- C3
\* C3: in every run whose candle fetch yields an empty table (an empty
\* upstream array or a failed fetch) the "No data available..." notice is
\* rendered, once, and nothing is built from the table: no tabs, no
\* candlestick chart, no volume chart, no price-trend line; the run never
\* enters a tab and does not end by a traceback.
C3_EmptyCandlesNoticeAndNoCharts ==
    (KlinesAnswered /\ UpstreamCount = 0)
    => /\ ~HasKind("tabs")
       /\ ~HasKind("plotly_chart")
       /\ ~HasKind("dataframe")
       /\ pc \in {"tabs", "refresh", "sleep", "done"}
       /\ Count(NoDataNotice) = (IF pc = "tabs" THEN 0 ELSE 1)

C3_Witness_EmptyArray ==
    /\ pc = "done"
    /\ KlinesAnswered
    /\ replies[3] = Success(<<>>)
    /\ Count(NoDataNotice) = 1

\* --------------------------------------------------------------------- C4
\* C4: each of the three fetch operations, when its request fails, emits
\* exactly one error message of its own, hands the no-data value to main
\* (None for price and ticker, the empty table for candles), and lets no
\* exception out: main goes on to its next step.
FetchErrorText == <<"Error fetching current price", "Error fetching 24hr stats",
                    "Error fetching data">>
FetchResult(i) ==
    CASE i = 1 -> current_price_data
      [] i = 2 -> ticker_24hr
      [] i = 3 -> df

\* Where main is between the answer to its i-th request and the next answer.
AfterFetch ==
    << {"get_24hr_ticker", "await_24hr_ticker"},
       {"metrics", "get_historical_klines", "await_historical_klines"} >>

C4_FetchFailuresAreCaughtInside ==
    /\ Count(Traceback("RequestException")) = 0
    /\ \A i \in 1..Len(replies) :
          ~replies[i].ok
          => /\ Count(StError(FetchErrorText[i])) = 1
             /\ FetchResult(i) = <<>>
             /\ (Len(replies) = i /\ i < 3) => pc \in AfterFetch[i]

C4_Witness_AllThreeFailed ==
    /\ pc = "done"
    /\ \A i \in 1..3 : ~replies[i].ok /\ Count(StError(FetchErrorText[i])) = 1

\* --------------------------------------------------------------------- C5
\* C5: a run issues its requests strictly in the order current price, 24h
\* ticker, candles, each once, never two at a time and never again after a
\* failure; every run that ends has issued exactly these three, the candle
\* request included when the price or the ticker request failed.
RunRequests ==
    << PriceRequest(selected_symbol), TickerRequest(selected_symbol),
       KlinesRequest(selected_symbol, selected_interval, data_limit) >>

C5_ThreeSequentialOneShotRequests ==
    /\ Len(calls) <= 3
    /\ calls = SubSeq(RunRequests, 1, Len(calls))
    /\ Len(inflight) <= 1
    /\ Len(calls) = Len(replies) + Len(inflight)
    /\ inflight # <<>> => inflight[1] = calls[Len(calls)]
    /\ pc \in {"tabs", "tab2", "tab3", "tab4", "refresh", "sleep", "done", "crashed"}
          => Len(calls) = 3 /\ Len(replies) = 3

C5_Witness_CandlesAfterFailures ==
    /\ pc = "await_historical_klines"
    /\ PriceFailed
    /\ TickerFailed
    /\ inflight = <<KlinesRequest(selected_symbol, selected_interval, data_limit)>>

\* --------------------------------------------------------------------- C6
\* What a whole run emits, as a function of its widget values and of the
\* three answers it received and of nothing else.
RunOutput(sym, intv, ar, rs) ==
    LET p == get_current_price(rs[1])
        t == get_24hr_ticker(rs[2])
        k == get_historical_klines(rs[3])
        both == p.ret # <<>> /\ t.ret # <<>>
        l == IF both THEN <<BindPriceLocals(p.ret[1], t.ret[1])>> ELSE <<>>
        top == <<Header>> \o p.errors \o t.errors
               \o (IF both THEN SummaryMetrics(sym, l[1]) ELSE <<>>)
               \o <<Subheader(<<"Price Chart", sym>>)>> \o k.errors
        foot == IF ar THEN <<>> ELSE <<FooterRule, FooterNote>>
    IN  IF DfEmpty(k.ret)
        THEN top \o <<NoDataNotice>> \o foot
        ELSE IF StatsRaises(p.ret, t.ret, l)
        THEN top \o CandlestickTab(k.ret, sym, intv) \o PriceAnalysisHead(k.ret, sym)
                 \o <<Traceback("UnboundLocalError")>>
        ELSE top \o CandlestickTab(k.ret, sym, intv) \o PriceAnalysisHead(k.ret, sym)
                 \o <<StatsTable(p.ret, t.ret, l)>> \o VolumeTab(k.ret)
                 \o RawDataTab(k.ret) \o foot

\* C6: what a run renders is determined by that run's parameters and its own
\* three answers alone, whatever runs preceded it; and a value of an earlier
\* run is never shown by a run whose own fetch failed: the summary strip is
\* absent and every statistics entry of a failed fetch reads "N/A".
C6_RunDependsOnlyOnItsOwnFetches ==
    RunEnded
    => /\ rendered = RunOutput(selected_symbol, selected_interval, auto_refresh,
                               replies)
       /\ (PriceFailed \/ TickerFailed) => ~HasMetric(<<"24h Volume">>)
       /\ (HasKind("stats_table") /\ PriceFailed)
             => TheElement("stats_table").value[1] = NA
       /\ (HasKind("stats_table") /\ TickerFailed)
             => \A j \in 2..6 : TheElement("stats_table").value[j] = NA

\* A run that follows an earlier one (auto-refresh can only have been switched
\* on after a run ended), whose own price and ticker fetches both failed.
C6_Witness_LaterRunWithFailedFetches ==
    /\ auto_refresh
    /\ pc = "sleep"
    /\ PriceFailed
    /\ TickerFailed
    /\ HasKind("stats_table")
    /\ \A j \in 1..6 : TheElement("stats_table").value[j] = NA

\* --------------------------------------------------------------------- C7
\* C7 as claimed: the table fetchCandles returns has at most the requested
\* limit of rows and at most the upstream cap (the slider's maximum).
C7_Claimed_LengthWithinLimit ==
    KlinesAnswered => Len(df) <= data_limit /\ Len(df) <= SliderMax

\* C7 as amended: the table has exactly one row per element of the upstream
\* array (none when the fetch failed), so it is within the limit exactly when
\* the upstream array is; the limit sent is the slider's value, a multiple of
\* the step between the slider's minimum and maximum.
C7_LengthIsUpstreamLength ==
    KlinesAnswered
    => /\ Len(df) = UpstreamCount
       /\ calls[3].limit = data_limit
       /\ data_limit \in SliderValues
       /\ UpstreamCount <= data_limit => Len(df) <= data_limit

C7_Witness_UpstreamExceedsLimit ==
    /\ KlinesAnswered
    /\ replies[3].ok
    /\ UpstreamCount > data_limit
    /\ Len(df) = UpstreamCount

\* --------------------------------------------------------------------- C8
MinOf(a, b) == IF a <= b THEN a ELSE b

\* C8: for a non-empty candle table of n rows, the raw-data table holds
\* exactly the last min(20, n) rows, in their order, and "Total Records"
\* reads n.
C8_RawTableIsLastTwentyRows ==
    HasKind("dataframe")
    => LET n == Len(df)
           m == MinOf(TailRows, n)
           shown == TheElement("dataframe").rows
       IN  /\ n = UpstreamCount
           /\ n > 0
           /\ Len(shown) = m
           /\ \A i \in 1..m : shown[i] = df[n - m + i]
           /\ HasMetric(<<"Total Records">>)
           /\ TheMetric(<<"Total Records">>).value = IntText(n)

C8_Witness_MoreThanTwentyRows ==
    /\ HasKind("dataframe")
    /\ Len(df) > TailRows
    /\ Len(TheElement("dataframe").rows) = TailRows
    /\ TheElement("dataframe").rows[1] = df[Len(df) - TailRows + 1]

\* --------------------------------------------------------------------- C9
\* C9: the candlestick chart has exactly one point per candle of the table,
\* in the table's order, each with that candle's own time, open, high, low
\* and close; and the table is still the converted upstream array.
C9_OnePointPerCandleInOrder ==
    HasChart("candlestick")
    => LET c == TheChart("candlestick") IN
           /\ Len(c.x) = Len(df)
           /\ Len(c.open) = Len(df) /\ Len(c.high) = Len(df)
           /\ Len(c.low) = Len(df) /\ Len(c.close) = Len(df)
           /\ \A i \in 1..Len(df) :
                 /\ c.x[i] = df[i].open_time
                 /\ c.open[i] = df[i].open
                 /\ c.high[i] = df[i].high
                 /\ c.low[i] = df[i].low
                 /\ c.close[i] = df[i].close
           /\ df = get_historical_klines(replies[3]).ret

C9_Witness_ChartOfManyCandles ==
    /\ HasChart("candlestick")
    /\ Len(df) >= TailRows
    /\ TheChart("candlestick").x[2] = df[2].open_time
    /\ df[1].open_time # df[2].open_time

\* -------------------------------------------------------------------- C10
FooterRendered == Count(FooterNote) > 0

\* C10: the footer is rendered exactly by the runs that pass the auto-refresh
\* step with the checkbox clear: with it set the run goes to the pause and
\* never shows the footer; with it clear the run shows the rule and the note
\* once, after everything else, and has ended, its three requests answered
\* and none outstanding.
C10_FooterIffNoAutoRefresh ==
    /\ FooterRendered <=> pc = "done"
    /\ auto_refresh => ~FooterRendered
    /\ pc = "sleep" => auto_refresh
    /\ pc = "done"
          => /\ ~auto_refresh
             /\ Count(FooterRule) = 1 /\ Count(FooterNote) = 1
             /\ rendered[Len(rendered)] = FooterNote
             /\ rendered[Len(rendered) - 1] = FooterRule
             /\ inflight = <<>> /\ Len(calls) = 3 /\ Len(replies) = 3

C10_Witness_FooterAtEnd ==
    /\ pc = "done"
    /\ FooterRendered
    /\ HasChart("bar")

====
